---- MODULE Spec2Model ----
(***************************************************************************)
(* The highlight engine of the reader: components/Reader.tsx               *)
(* (getBlockOffset, HighlightedText, the Reader component's highlights     *)
(* state, its load effect, saveHighlights, clearHighlights and             *)
(* applyHighlight) under the navigation of App.tsx.                        *)
(*                                                                         *)
(* Block indices and character offsets are 0-based, as in the source.  A   *)
(* text is a sequence of characters; text.slice(a, b) is Slice(text, a, b).*)
(***************************************************************************)
EXTENDS Integers, Sequences, FiniteSets, TLC

VARIABLES
    currentSectionId,   \* App: useState(SECTIONS[0].id)
    highlights,         \* Reader: useState<HighlightsState>({})
    storage,            \* localStorage, the values under `highlights-${id}`
    dom,                \* the text leaves last committed under each block wrapper
    pc,                 \* what React runs next: "render", "effect", "idle", "crashed"
    effectPending,      \* the [section.id] effect is scheduled for after the commit
    adds,               \* number of applyHighlight calls so far (bounded)
    cleared,            \* history: per section, "no" | "yes" (cleared, ranges were stored) | "reloaded"
    anchors,            \* history: what the endpoints of the selection last applied resolved to, until the next render
    mInput,             \* HighlightedText on its own: the highlights prop
    mText,              \* HighlightedText on its own: the text prop
    mOut,               \* HighlightedText on its own: the last results
    mPc                 \* HighlightedText on its own: "off", "input", "merged", "rendered"

vars == <<currentSectionId, highlights, storage, dom, pc, effectPending, adds,
          cleared, anchors, mInput, mText, mOut, mPc>>

readerVars == <<currentSectionId, highlights, storage, dom, pc, effectPending,
                adds, cleared, anchors>>

harnessVars == <<mInput, mText, mOut, mPc>>

-----------------------------------------------------------------------------
(* Bounds *)

\* applyHighlight calls explored in one behaviour
MaxAdds == 2

\* longest range list given to HighlightedText on its own
MaxRanges == 3

-----------------------------------------------------------------------------
(* Arithmetic and strings *)

Min(a, b) == IF a < b THEN a ELSE b

Max(a, b) == IF a > b THEN a ELSE b

\* String.prototype.slice for 0 <= a, b <= text.length
Slice(text, a, b) == IF a < b THEN SubSeq(text, a + 1, b) ELSE <<>>

RECURSIVE Concat(_)
Concat(seqs) == IF seqs = <<>> THEN <<>> ELSE Head(seqs) \o Concat(Tail(seqs))

Highlight(s, e) == [start |-> s, end |-> e]

-----------------------------------------------------------------------------
(* HighlightedText: sort, merge, emit *)

\* position of element i after [...highlights].sort((a, b) => a.start - b.start);
\* Array.prototype.sort is stable
SortRank(hl, i) ==
    1 + Cardinality({j \in 1..Len(hl) :
            \/ hl[j].start < hl[i].start
            \/ (hl[j].start = hl[i].start /\ j < i)})

\* sorted, as the sequence of the positions the elements have in highlights
\* (sorted holds the same objects as highlights, not copies)
SortedOrder(hl) ==
    [k \in 1..Len(hl) |-> CHOOSE i \in 1..Len(hl) : SortRank(hl, i) = k]

\* a faulty variant of the merge loop: its test is >, so that touching ranges
\* stay apart
RECURSIVE SweepStrict(_, _, _, _, _)
SweepStrict(objs, order, i, current, merged) ==
    IF i > Len(order)
    THEN [objs |-> objs, merged |-> Append(merged, current)]
    ELSE IF objs[current].end > objs[order[i]].start
         THEN SweepStrict([objs EXCEPT ![current].end = Max(@, objs[order[i]].end)],
                          order, i + 1, current, merged)
         ELSE SweepStrict(objs, order, i + 1, order[i], Append(merged, current))

\* a faulty variant of the merge loop: its test reads the previous element of
\* sorted instead of the accumulator
RECURSIVE SweepPrev(_, _, _, _, _)
SweepPrev(objs, order, i, current, merged) ==
    IF i > Len(order)
    THEN [objs |-> objs, merged |-> Append(merged, current)]
    ELSE IF objs[order[i - 1]].end >= objs[order[i]].start
         THEN SweepPrev([objs EXCEPT ![current].end = Max(@, objs[order[i]].end)],
                        order, i + 1, current, merged)
         ELSE SweepPrev(objs, order, i + 1, order[i], Append(merged, current))

\* the for loop of the merge and the push after it.  objs: the objects of
\* highlights, which the loop writes to (current.end = ...); current and merged
\* hold positions in objs, as the source holds references
RECURSIVE Sweep(_, _, _, _, _)
Sweep(objs, order, i, current, merged) ==
    IF i > Len(order)
    THEN [objs |-> objs, merged |-> Append(merged, current)]
    ELSE IF objs[current].end >= objs[order[i]].start
         THEN Sweep([objs EXCEPT ![current].end = Max(@, objs[order[i]].end)],
                    order, i + 1, current, merged)
         ELSE Sweep(objs, order, i + 1, order[i], Append(merged, current))

\* "Sort and merge overlapping highlights": the objects after the loop and
\* the positions that merged refers to
SortAndMerge(hl) ==
    IF Len(hl) > 0
    THEN Sweep(hl, SortedOrder(hl), 2, SortedOrder(hl)[1], <<>>)
    ELSE [objs |-> hl, merged |-> <<>>]

\* the merged array, by value
RangeMerger(hl) ==
    LET r == SortAndMerge(hl)
    IN  [k \in 1..Len(r.merged) |-> r.objs[r.merged[k]]]

Part(t, h) == [text |-> t, highlighted |-> h]

\* a faulty variant of the emission: the text after the last highlight is lost
RECURSIVE EmitPartsNoTail(_, _, _, _, _)
EmitPartsNoTail(text, merged, i, lastIndex, parts) ==
    IF i > Len(merged)
    THEN parts
    ELSE LET start == Max(0, Min(merged[i].start, Len(text)))
             end   == Max(0, Min(merged[i].end, Len(text)))
             plain == IF start > lastIndex
                      THEN Append(parts, Part(Slice(text, lastIndex, start), FALSE))
                      ELSE parts
         IN  EmitPartsNoTail(text, merged, i + 1, end,
                             Append(plain, Part(Slice(text, start, end), TRUE)))

\* merged.forEach(...) and the trailing text
RECURSIVE EmitParts(_, _, _, _, _)
EmitParts(text, merged, i, lastIndex, parts) ==
    IF i > Len(merged)
    THEN IF lastIndex < Len(text)
         THEN Append(parts, Part(Slice(text, lastIndex, Len(text)), FALSE))
         ELSE parts
    ELSE LET start == Max(0, Min(merged[i].start, Len(text)))
             end   == Max(0, Min(merged[i].end, Len(text)))
             plain == IF start > lastIndex
                      THEN Append(parts, Part(Slice(text, lastIndex, start), FALSE))
                      ELSE parts
         IN  EmitParts(text, merged, i + 1, end,
                       Append(plain, Part(Slice(text, start, end), TRUE)))

\* the component: the parts it returns and the objects of its highlights prop
\* as the merge loop leaves them
HighlightedText(text, hl) ==
    IF Len(hl) = 0
    THEN [parts |-> <<Part(text, FALSE)>>, highlights |-> hl]
    ELSE [parts      |-> EmitParts(text, RangeMerger(hl), 1, 0, <<>>),
          highlights |-> SortAndMerge(hl).objs]

\* renderSegments of the specification: the parts alone
renderSegments(text, hl) == HighlightedText(text, hl).parts

-----------------------------------------------------------------------------
(* The documents (SECTIONS of ./constants) *)

Block(type, text) == [type |-> type, text |-> text]

\* two sections that cover the block kinds the reader distinguishes: a block
\* rendered as its text alone, a quote (rendered between two quotation marks)
\* and a separator (rendered without a block wrapper); the second section has
\* three blocks with text, for a selection that runs over a whole block
SECTIONS ==
    << [id |-> "genesis",
        content |-> << Block("paragraph", <<"a">>),
                       Block("quote", <<"d">>) >>],
       [id |-> "exodus",
        content |-> << Block("verse", <<"f", "g">>),
                       Block("separator", <<>>),
                       Block("emphasis", <<"h">>),
                       Block("heading", <<"i">>) >>] >>

SectionIds == {SECTIONS[n].id : n \in 1..Len(SECTIONS)}

\* SECTIONS.findIndex(s => s.id === currentSectionId), 0-based
currentIndex == (CHOOSE n \in 1..Len(SECTIONS) : SECTIONS[n].id = currentSectionId) - 1

\* the section prop of Reader
section == SECTIONS[currentIndex + 1]

isLast == currentIndex = Len(SECTIONS) - 1

\* the block indices any section uses
BlockKeys ==
    LET lens == {Len(SECTIONS[n].content) : n \in 1..Len(SECTIONS)}
    IN  0..((CHOOSE m \in lens : \A l \in lens : l <= m) - 1)

\* the block indices of the open section
Indices == 0..(Len(section.content) - 1)

\* renderContent gives every block but a separator the data-block-index attribute
HasWrapper(i) == i \in Indices /\ section.content[i + 1].type # "separator"

-----------------------------------------------------------------------------
(* HighlightsState and its persisted form *)

\* a HighlightsState object; a key that is absent holds <<>>
ObjectState(map) == [kind |-> "object", map |-> map]

\* {}
EmptyState == ObjectState([i \in BlockKeys |-> <<>>])

\* what JSON.parse can hand to setHighlights besides an object of range lists
NullState == [kind |-> "null", map |-> EmptyState.map]

NumberState == [kind |-> "number", map |-> EmptyState.map]

\* localStorage.getItem: null for a missing key, else the stored text.  A text
\* is kept by what JSON.parse makes of it: "malformed" does not parse, "null"
\* and "number" parse to that value, "object" is the text of an object, as
\* the sequence of its members in the order JSON.stringify writes them
Missing == [kind |-> "missing", entries |-> <<>>]

Malformed == [kind |-> "malformed", entries |-> <<>>]

NullText == [kind |-> "null", entries |-> <<>>]

NumberText == [kind |-> "number", entries |-> <<>>]

ObjectText(entries) == [kind |-> "object", entries |-> entries]

\* JSON.stringify of a HighlightsState object: integer keys ascending, each
\* with its array of {start, end}; only the keys that were assigned are
\* members (applyHighlight assigns a key only with a range pushed to it)
RECURSIVE StringifyFrom(_, _)
StringifyFrom(map, i) ==
    IF i \notin DOMAIN map
    THEN <<>>
    ELSE IF map[i] = <<>>
         THEN StringifyFrom(map, i + 1)
         ELSE <<[key |-> i, ranges |-> map[i]]>> \o StringifyFrom(map, i + 1)

JSONstringify(state) == ObjectText(StringifyFrom(state.map, 0))

\* JSON.parse of a stored text that parses
JSONparse(saved) ==
    CASE saved.kind = "null"   -> NullState
      [] saved.kind = "number" -> NumberState
      [] OTHER ->
            ObjectState([i \in BlockKeys |->
                IF \E k \in 1..Len(saved.entries) : saved.entries[k].key = i
                THEN saved.entries[CHOOSE k \in 1..Len(saved.entries) :
                                        saved.entries[k].key = i].ranges
                ELSE <<>>])

\* highlights[index] in renderContent; undefined (here <<>>) on a number
BlockHighlights(state, i) == state.map[i]

\* { ...highlights } in applyHighlight: the own enumerable members, none for a number
SpreadOf(state) == IF state.kind = "object" THEN state.map ELSE EmptyState.map

-----------------------------------------------------------------------------
(* The rendered blocks and the selection *)

\* the text nodes React puts under the wrapper of block i, in document order:
\* one per part of HighlightedText that holds text (an empty string makes no
\* text node), and for a quote the two quotation marks around them
TextLeaves(block, hl) ==
    LET parts  == HighlightedText(block.text, hl).parts
        leaves == [k \in 1..Len(parts) |-> parts[k].text]
        shown  == SelectSeq(leaves, LAMBDA t : t # <<>>)
    IN  IF block.type = "quote" THEN <<<<"\"">>>> \o shown \o <<<<"\"">>>> ELSE shown

\* the commit of a render of Reader: renderContent for every block of section
RenderedDom(state) ==
    [i \in BlockKeys |->
        IF HasWrapper(i)
        THEN TextLeaves(section.content[i + 1], BlockHighlights(state, i))
        ELSE <<>>]

\* the HighlightsState after that render: HighlightedText has run on the array
\* of every block that has one and is not a separator
RenderedState(state) ==
    [state EXCEPT !.map =
        [i \in BlockKeys |->
            IF HasWrapper(i)
            THEN HighlightedText(section.content[i + 1].text, state.map[i]).highlights
            ELSE state.map[i]]]

RECURSIVE TextLength(_)
TextLength(leaves) ==
    IF leaves = <<>> THEN 0 ELSE Len(Head(leaves)) + TextLength(Tail(leaves))

\* getBlockOffset(root, target, offset), root given by its text leaves and
\* target by its number among them; 0 is a node the walker does not visit
getBlockOffset(leaves, target, offset) ==
    IF target \in 1..Len(leaves)
    THEN TextLength(SubSeq(leaves, 1, target - 1)) + offset
    ELSE -1

\* a boundary point of the selection's range inside a block wrapper: in text
\* leaf `node` at `offset`, or (node = 0) in an element, before (offset 0) or
\* after (offset 1) the block's leaves
BoundaryPoints ==
    {[block |-> i, node |-> 0, offset |-> o] : i \in {j \in Indices : HasWrapper(j)}, o \in {0, 1}}
    \cup
    UNION {UNION {{[block |-> i, node |-> k, offset |-> o] : o \in 0..Len(dom[i][k])}
                    : k \in 1..Len(dom[i])}
             : i \in {j \in Indices : HasWrapper(j)}}

\* a Range has its start before its end in document order, and a selection
\* that is not collapsed has them apart
Before(p, q) ==
    \/ p.block < q.block
    \/ /\ p.block = q.block
       /\ \/ p.node = 0 /\ p.offset = 0 /\ q # p
          \/ q.node = 0 /\ q.offset = 1 /\ q # p
          \/ p.node # 0 /\ q.node # 0 /\ p.node < q.node
          \/ p.node # 0 /\ q.node = p.node /\ p.offset < q.offset

Selections ==
    {sel \in [start : BoundaryPoints, end : BoundaryPoints] : Before(sel.start, sel.end)}

-----------------------------------------------------------------------------
(* applyHighlight *)

\* a faulty variant of the loop body: the test before the push is <=
OffsetsInBlockLoose(i, sel) ==
    LET startIndex == sel.start.block
        endIndex   == sel.end.block
        len        == Len(section.content[i + 1].text)
        so  == IF i = startIndex
               THEN getBlockOffset(dom[i], sel.start.node, sel.start.offset) ELSE -1
        eo  == IF i = endIndex
               THEN getBlockOffset(dom[i], sel.end.node, sel.end.offset) ELSE -1
        startOffset == IF so # -1 THEN so ELSE 0
        endOffset   == IF eo # -1 THEN eo ELSE len
        swap == startIndex = endIndex /\ startOffset > endOffset
        s == IF swap THEN endOffset ELSE startOffset
        e == IF swap THEN startOffset ELSE endOffset
    IN  [push |-> s <= e, range |-> Highlight(s, e)]

\* a variant of the loop body that pushes nothing when neither endpoint of a
\* selection inside one block resolved
OffsetsInBlockSkipUnresolved(i, sel) ==
    LET startIndex == sel.start.block
        endIndex   == sel.end.block
        len        == Len(section.content[i + 1].text)
        so  == IF i = startIndex
               THEN getBlockOffset(dom[i], sel.start.node, sel.start.offset) ELSE -1
        eo  == IF i = endIndex
               THEN getBlockOffset(dom[i], sel.end.node, sel.end.offset) ELSE -1
        startOffset == IF so # -1 THEN so ELSE 0
        endOffset   == IF eo # -1 THEN eo ELSE len
        swap == startIndex = endIndex /\ startOffset > endOffset
        s == IF swap THEN endOffset ELSE startOffset
        e == IF swap THEN startOffset ELSE endOffset
    IN  [push  |-> s < e /\ ~(startIndex = endIndex /\ so = -1 /\ eo = -1),
         range |-> Highlight(s, e)]

\* a faulty variant of the loop body: the offset of the end is used in every
\* block, not only in block endIndex
OffsetsInBlockEndEverywhere(i, sel) ==
    LET startIndex == sel.start.block
        endIndex   == sel.end.block
        len        == Len(section.content[i + 1].text)
        so  == IF i = startIndex
               THEN getBlockOffset(dom[i], sel.start.node, sel.start.offset) ELSE -1
        eo  == getBlockOffset(dom[endIndex], sel.end.node, sel.end.offset)
        startOffset == IF so # -1 THEN so ELSE 0
        endOffset   == IF eo # -1 THEN eo ELSE len
        swap == startIndex = endIndex /\ startOffset > endOffset
        s == IF swap THEN endOffset ELSE startOffset
        e == IF swap THEN startOffset ELSE endOffset
    IN  [push |-> s < e, range |-> Highlight(s, e)]

\* the body of the for loop for block i: the offsets after the fallbacks and
\* the swap, and whether a range is pushed
OffsetsInBlock(i, sel) ==
    LET startIndex == sel.start.block
        endIndex   == sel.end.block
        len        == Len(section.content[i + 1].text)
        so  == IF i = startIndex
               THEN getBlockOffset(dom[i], sel.start.node, sel.start.offset) ELSE -1
        eo  == IF i = endIndex
               THEN getBlockOffset(dom[i], sel.end.node, sel.end.offset) ELSE -1
        startOffset == IF so # -1 THEN so ELSE 0
        endOffset   == IF eo # -1 THEN eo ELSE len
        swap == startIndex = endIndex /\ startOffset > endOffset
        s == IF swap THEN endOffset ELSE startOffset
        e == IF swap THEN startOffset ELSE endOffset
    IN  [push |-> s < e, range |-> Highlight(s, e)]

\* newHighlights after the loop
NewHighlights(sel) ==
    LET lo == Min(sel.start.block, sel.end.block)
        hi == Max(sel.start.block, sel.end.block)
        old == SpreadOf(highlights)
    IN  ObjectState([i \in BlockKeys |->
            IF i \in lo..hi /\ HasWrapper(i)
            THEN LET r == OffsetsInBlock(i, sel)
                 IN  IF r.push THEN Append(old[i], r.range) ELSE old[i]
            ELSE old[i]])

\* startIndex and endIndex with what getBlockOffset returned for each endpoint
\* in its own block (-1: not resolved to a text leaf)
Anchors(sel) ==
    [start |-> [blockIndex |-> sel.start.block,
                rawOffset  |-> getBlockOffset(dom[sel.start.block], sel.start.node, sel.start.offset)],
     end   |-> [blockIndex |-> sel.end.block,
                rawOffset  |-> getBlockOffset(dom[sel.end.block], sel.end.node, sel.end.offset)]]

\* no selection was applied since the last render
NoAnchors ==
    [start |-> [blockIndex |-> -1, rawOffset |-> -1],
     end   |-> [blockIndex |-> -1, rawOffset |-> -1]]

-----------------------------------------------------------------------------
(* The Reader component under App *)

\* the values the key of the section opened first holds before the reader
\* first writes it; the keys of the other sections start absent
InitialStored ==
    {Missing, Malformed, NullText, NumberText,
     ObjectText(<<[key |-> 0, ranges |-> <<Highlight(0, 1)>>]>>)}

Init ==
    /\ currentSectionId = SECTIONS[1].id
    /\ highlights = EmptyState
    /\ storage \in {f \in [SectionIds -> InitialStored] :
                      \A id \in SectionIds \ {SECTIONS[1].id} : f[id] = Missing}
    /\ dom = [i \in BlockKeys |-> <<>>]
    /\ pc = "render"
    /\ effectPending = TRUE
    /\ adds = 0
    /\ cleared = [id \in SectionIds |-> "no"]
    /\ anchors = NoAnchors
    /\ mInput = <<>>
    /\ mText = <<>>
    /\ mOut = <<>>
    /\ mPc = "off"

\* React renders Reader after a state or prop change.  highlights[index] of
\* renderContent throws on null, and with no error boundary the tree unmounts
Render ==
    /\ pc = "render"
    /\ IF highlights.kind = "null"
       THEN /\ pc' = "crashed"
            /\ UNCHANGED <<highlights, dom>>
       ELSE /\ highlights' = RenderedState(highlights)
            /\ dom' = RenderedDom(highlights)
            /\ pc' = IF effectPending THEN "effect" ELSE "idle"
    /\ anchors' = NoAnchors
    /\ UNCHANGED <<currentSectionId, storage, effectPending, adds, cleared, harnessVars>>

\* handleSelection: setToolbar gives Reader a new state object, so Reader
\* renders again with the highlights it has
handleSelection ==
    /\ pc = "idle"
    /\ highlights' = RenderedState(highlights)
    /\ dom' = RenderedDom(highlights)
    /\ UNCHANGED <<currentSectionId, storage, pc, effectPending, adds, cleared, anchors, harnessVars>>

\* useEffect(..., [section.id]): the load
LoadEffect ==
    /\ pc = "effect"
    /\ LET saved == storage[section.id]
       IN  CASE saved.kind \in {"missing"} ->
                    /\ highlights' = EmptyState
                    /\ pc' = "render"
             [] saved.kind = "malformed" ->
                    /\ highlights' = highlights
                    /\ pc' = "idle"
             [] OTHER ->
                    /\ highlights' = JSONparse(saved)
                    /\ pc' = "render"
    /\ effectPending' = FALSE
    /\ cleared' = [cleared EXCEPT ![section.id] = IF @ = "yes" THEN "reloaded" ELSE @]
    /\ UNCHANGED <<currentSectionId, storage, dom, adds, anchors, harnessVars>>

\* setCurrentSectionId(id): a new id re-renders App and Reader with the new
\* section prop, and the [section.id] effect runs after the commit
setCurrentSectionId(id) ==
    IF id = currentSectionId
    THEN UNCHANGED vars
    ELSE /\ currentSectionId' = id
         /\ pc' = "render"
         /\ effectPending' = TRUE
         /\ UNCHANGED <<highlights, storage, dom, adds, cleared, anchors, harnessVars>>

handleNext ==
    /\ pc = "idle"
    /\ IF ~isLast
       THEN setCurrentSectionId(SECTIONS[currentIndex + 2].id)
       ELSE UNCHANGED vars

\* handleKeyDown, ArrowLeft (ArrowRight is handleNext)
handleKeyDown ==
    /\ pc = "idle"
    /\ IF currentIndex > 0
       THEN setCurrentSectionId(SECTIONS[currentIndex].id)
       ELSE UNCHANGED vars

\* Navigation: onSectionChange(section.id) of a sidebar button
onSectionChange ==
    /\ pc = "idle"
    /\ \E id \in SectionIds : setCurrentSectionId(id)

\* a faulty variant of saveHighlights: the state is set and nothing is stored
saveHighlightsUnsaved(newHighlights) ==
    /\ highlights' = newHighlights
    /\ storage' = storage
    /\ pc' = "render"

\* saveHighlights(newHighlights)
saveHighlights(newHighlights) ==
    /\ highlights' = newHighlights
    /\ storage' = [storage EXCEPT ![section.id] = JSONstringify(newHighlights)]
    /\ pc' = "render"

\* clearHighlights; window.confirm answers either way
clearHighlights ==
    /\ pc = "idle"
    /\ \E confirmed \in BOOLEAN :
         IF confirmed
         THEN /\ saveHighlights(EmptyState)
              /\ cleared' = [cleared EXCEPT ![section.id] =
                                IF \E i \in BlockKeys : highlights.map[i] # <<>>
                                THEN "yes" ELSE @]
              /\ UNCHANGED <<currentSectionId, dom, effectPending, adds, anchors, harnessVars>>
         ELSE UNCHANGED vars

\* applyHighlight on a selection that is not collapsed and has both boundary
\* points inside block wrappers (the early returns leave everything as it is)
applyHighlight ==
    /\ pc = "idle"
    /\ adds < MaxAdds
    /\ \E sel \in Selections :
         LET newHighlights == NewHighlights(sel)
         IN  /\ saveHighlights(newHighlights)
             /\ adds' = adds + 1
             /\ cleared' = [cleared EXCEPT ![section.id] =
                               IF newHighlights # EmptyState THEN "no" ELSE @]
             /\ anchors' = Anchors(sel)
             /\ UNCHANGED <<currentSectionId, dom, effectPending, harnessVars>>

Next ==
    \/ Render
    \/ LoadEffect
    \/ handleSelection
    \/ handleNext
    \/ handleKeyDown
    \/ onSectionChange
    \/ clearHighlights
    \/ applyHighlight

Spec == Init /\ [][Next]_vars

-----------------------------------------------------------------------------
(* HighlightedText on its own: every range list up to MaxRanges ranges,    *)
(* degenerate ranges included, against texts shorter than the offsets      *)

Texts == {<<>>, <<"a">>, <<"a", "b">>}

LongestText == CHOOSE t \in Texts : \A u \in Texts : Len(u) <= Len(t)

\* offsets up to one past the end of the longest text
Offsets == 0..(Len(LongestText) + 1)

RangeLists == UNION {[1..n -> [start : Offsets, end : Offsets]] : n \in 0..MaxRanges}

NoOutput == [merged |-> <<>>, again |-> <<>>, parts |-> <<>>]

MergerInit ==
    /\ currentSectionId = SECTIONS[1].id
    /\ highlights = EmptyState
    /\ storage = [id \in SectionIds |-> Missing]
    /\ dom = [i \in BlockKeys |-> <<>>]
    /\ pc = "idle"
    /\ effectPending = FALSE
    /\ adds = 0
    /\ cleared = [id \in SectionIds |-> "no"]
    /\ anchors = NoAnchors
    /\ mInput \in RangeLists
    /\ mText = <<>>
    /\ mOut = NoOutput
    /\ mPc = "input"

\* the sort and merge of HighlightedText, once and on its own result
RunMerger ==
    /\ mPc = "input"
    /\ mOut' = [NoOutput EXCEPT !.merged = RangeMerger(mInput),
                                !.again = RangeMerger(RangeMerger(mInput))]
    /\ mPc' = "merged"
    /\ UNCHANGED <<mInput, mText, readerVars>>

\* <HighlightedText text={text} highlights={mInput} />
RunRender ==
    /\ mPc = "input"
    /\ \E text \in Texts :
         /\ mText' = text
         /\ mOut' = [NoOutput EXCEPT !.parts = renderSegments(text, mInput)]
    /\ mPc' = "rendered"
    /\ UNCHANGED <<mInput, readerVars>>

MergerNext == RunMerger \/ RunRender

MergerSpec == MergerInit /\ [][MergerNext]_vars

-----------------------------------------------------------------------------
(* Properties *)

\* consecutive ranges strictly apart: a.end < b.start
Separated(list) == \A k \in 1..(Len(list) - 1) : list[k].end < list[k + 1].start

SortedByStart(list) == \A k \in 1..(Len(list) - 1) : list[k].start <= list[k + 1].start

NonDegenerate(list) == \A k \in 1..Len(list) : list[k].start < list[k].end

\* the characters a range list covers
Covered(list) ==
    UNION {list[k].start..(list[k].end - 1) : k \in 1..Len(list)}

\* every stored range list: those of the HighlightsState in memory and those
\* of every text in localStorage
StoredLists ==
    {highlights.map[i] : i \in BlockKeys}
    \cup UNION {{storage[id].entries[k].ranges : k \in 1..Len(storage[id].entries)}
                  : id \in SectionIds}

\* no block has a range in memory
IsEmptySet(state) == state.kind # "null" /\ \A i \in BlockKeys : state.map[i] = <<>>

\* the range list stored for block i under the key of section id
PersistedList(store, id, i) ==
    IF store[id].kind = "object" THEN JSONparse(store[id]).map[i] ELSE <<>>

C2_WriteThrough ==
    (pc = "idle" /\ storage[section.id].kind = "object")
        => JSONparse(storage[section.id]) = highlights

\* C3 as claimed: a load never is fatal, and after the load of a document
\* whose key is missing or holds malformed data (text that does not parse, or
\* that parses to no mapping) the HighlightSet in memory is empty.  While
\* the key still holds that data nothing was saved since the load
C3_LoadFallsBackToEmpty ==
    /\ pc # "crashed"
    /\ (pc = "idle" /\ storage[section.id].kind \in {"missing", "malformed", "null", "number"})
          => IsEmptySet(highlights)

\* C4 as claimed: a HighlightSet is not shared across documents.  Between
\* operations every range in memory is one persisted under the open
\* document's key (same block, same place in the list, same start); a save
\* writes under the open document's key only ranges that were under that key
\* already and the one range pushed per block; and no operation changes the
\* value under another document's key
C4_NeverShared ==
    /\ [](pc = "idle" =>
            \A i \in BlockKeys : \A k \in 1..Len(highlights.map[i]) :
                /\ k <= Len(PersistedList(storage, section.id, i))
                /\ PersistedList(storage, section.id, i)[k].start = highlights.map[i][k].start)
    /\ [][storage'[section.id] # storage[section.id] =>
            \A i \in BlockKeys :
                LET before  == PersistedList(storage, section.id, i)
                    written == PersistedList(storage', section.id, i)
                IN  \A k \in 1..Len(written) :
                        \/ k <= Len(before) /\ written[k].start = before[k].start
                        \/ k = Len(before) + 1 /\ k = Len(written)]_vars
    /\ [][\A id \in SectionIds \ {section.id} : storage'[id] = storage[id]]_vars

\* C6 as claimed: a render is a pure query; it leaves the HighlightSet in
\* memory and the persisted state as they are, whatever the stored lists hold
C6_RenderIsPure ==
    [][(Render \/ handleSelection) => (highlights' = highlights /\ storage' = storage)]_vars

\* C7 as claimed: every range that applyHighlight pushes for block i
\* satisfies 0 <= start < end <= length of the text of block i
C7_PushedRangeInsideText ==
    [][adds' # adds =>
        \A i \in BlockKeys :
            Len(highlights'.map[i]) = Len(SpreadOf(highlights)[i]) + 1 =>
                LET r == highlights'.map[i][Len(highlights'.map[i])]
                IN  /\ i \in Indices
                    /\ 0 <= r.start
                    /\ r.start < r.end
                    /\ r.end <= Len(section.content[i + 1].text)]_vars

\* C10: a confirmed clear leaves the HighlightSet in memory empty and the
\* empty set under the document's key; and from then on, until a range is
\* pushed to that document, the document shows an empty HighlightSet both
\* right after the clear and after every later load of it
C10_ClearThenLoadEmpty ==
    /\ [][(clearHighlights /\ vars' # vars) =>
            (IsEmptySet(highlights') /\ storage'[section.id] = JSONstringify(EmptyState))]_vars
    /\ []((cleared[section.id] \in {"yes", "reloaded"} /\ pc \in {"render", "idle"} /\ ~effectPending)
            => (IsEmptySet(highlights) /\ JSONparse(storage[section.id]) = EmptyState))

\* C10 witness: the open document had stored ranges, was cleared, another
\* document was opened, and this one was loaded again and shows no range
C10_ClearedAndLoadedAgain ==
    /\ cleared[section.id] = "reloaded"
    /\ pc = "idle"
    /\ IsEmptySet(highlights)
    /\ \E id \in SectionIds \ {section.id} : storage[id].kind = "object" /\ storage[id].entries # <<>>

(* RangeMerger and renderSegments on their own, under MergerSpec *)

\* the ranges of a list clamped to the text, as the slices of the text
ClampedSlices(text, list) ==
    [k \in 1..Len(list) |->
        SubSeq(text, Max(0, Min(list[k].start, Len(text))) + 1, Min(list[k].end, Len(text)))]

\* C5: for a merged range list (sorted, strictly separated, no degenerate
\* range; possibly empty, starting at 0, ending at or past the end of the
\* text) the texts of the segments, concatenated in order, are the text, and
\* the highlighted segments are the stored ranges clamped to the text
C5_SegmentsReproduceText ==
    (mPc = "rendered" /\ SortedByStart(mInput) /\ Separated(mInput) /\ NonDegenerate(mInput)) =>
        /\ Concat([k \in 1..Len(mOut.parts) |-> mOut.parts[k].text]) = mText
        /\ LET marked == SelectSeq(mOut.parts, LAMBDA part : part.highlighted)
           IN  [k \in 1..Len(marked) |-> marked[k].text] = ClampedSlices(mText, mInput)

\* C5 witness: two merged ranges, the first from 0, the second past the end
\* of a text of two characters, and a plain segment between them
C5_RendersAcrossEdges ==
    /\ mPc = "rendered"
    /\ mInput = <<Highlight(0, 1), Highlight(2, 3)>>
    /\ mText = <<"a", "b">>
    /\ mOut.parts = <<Part(<<"a">>, TRUE), Part(<<"b">>, FALSE), Part(<<>>, TRUE)>>

\* C8 as claimed: for any input, degenerate ranges included, the output of
\* the merge is sorted by start, strictly separated, and every output range
\* has start < end; empty input gives empty output
C8_MergerOutputCanonical ==
    mPc = "merged" =>
        /\ SortedByStart(mOut.merged)
        /\ Separated(mOut.merged)
        /\ NonDegenerate(mOut.merged)
        /\ (mInput = <<>> => mOut.merged = <<>>)

\* C8 as amended: for any input the output is sorted by start and strictly
\* separated, and empty input gives empty output; every output range has
\* start < end when every input range has
C8_MergerOutputSeparated ==
    mPc = "merged" =>
        /\ SortedByStart(mOut.merged)
        /\ Separated(mOut.merged)
        /\ (NonDegenerate(mInput) => NonDegenerate(mOut.merged))
        /\ (mInput = <<>> => mOut.merged = <<>>)

\* C8 witness: three ranges out of order, two of them touching, merged to two
C8_UnsortedTouchingMerged ==
    /\ mPc = "merged"
    /\ mInput = <<Highlight(2, 3), Highlight(0, 1), Highlight(1, 2)>>
    /\ mOut.merged = <<Highlight(0, 3)>>

\* C9: merging the output of the merge gives that output again
C9_MergerIdempotent ==
    mPc = "merged" => mOut.again = mOut.merged

\* C9 witness: an input of three ranges that the merge changes
C9_MergeChangesInput ==
    /\ mPc = "merged"
    /\ Len(mInput) = 3
    /\ Len(mOut.merged) = 2
    /\ mOut.merged # mInput
    /\ mOut.again = mOut.merged

(* applyHighlight by what the endpoints resolved to, under Spec *)

\* the step is an applyHighlight
Applied == adds' # adds

TextLen(i) == Len(section.content[i + 1].text)

\* both endpoints of the selection applied lie in one block and neither
\* resolved to a text leaf
BothUnresolved(a) ==
    /\ a.start.blockIndex = a.end.blockIndex
    /\ a.start.blockIndex # -1
    /\ a.start.rawOffset = -1
    /\ a.end.rawOffset = -1

\* C11 as claimed: when both endpoints of a block resolve to -1 the block is
\* skipped; no range is appended to it, no whole-block range is synthesized
C11_UnresolvedBlockSkipped ==
    [][(Applied /\ BothUnresolved(anchors')) =>
          highlights'.map[anchors'.start.blockIndex]
            = SpreadOf(highlights)[anchors'.start.blockIndex]]_vars

\* C11 as amended: when both endpoints of a block resolve to -1 each takes its
\* fallback, 0 for the start and the length of the text for the end: the
\* range over the whole text is appended to that block when the text is not
\* empty, and no other block changes
C11_UnresolvedBlockTakesWholeText ==
    [][(Applied /\ BothUnresolved(anchors')) =>
          \A i \in BlockKeys :
              highlights'.map[i] =
                  IF i = anchors'.start.blockIndex /\ 0 < TextLen(i)
                  THEN Append(SpreadOf(highlights)[i], Highlight(0, TextLen(i)))
                  ELSE SpreadOf(highlights)[i]]_vars

\* C11 witness: a selection with both endpoints unresolved in one block was
\* applied, and the last range of that block is the one over its whole text
C11_WholeBlockFromUnresolved ==
    /\ BothUnresolved(anchors)
    /\ pc = "render"
    /\ LET list == highlights.map[anchors.start.blockIndex]
       IN  /\ list # <<>>
           /\ list[Len(list)] = Highlight(0, TextLen(anchors.start.blockIndex))
           /\ PersistedList(storage, section.id, anchors.start.blockIndex) = list

\* the selection applied starts in one block and ends in a later one, and
\* both endpoints resolved to an offset
CrossBlockResolved(a) ==
    /\ a.start.blockIndex # -1
    /\ a.start.blockIndex < a.end.blockIndex
    /\ a.start.rawOffset # -1
    /\ a.end.rawOffset # -1

\* the list with the range from s to e added at its end, when s < e
WithRange(list, s, e) == IF s < e THEN Append(list, Highlight(s, e)) ELSE list

\* C12: a selection from offset s of block a to offset e of a later block b
\* adds the range from s to the end of the text to block a, the range over the
\* whole text to every block between them and the range from 0 to e to block
\* b, each only when it is not empty, and changes no other block
C12_CrossBlockRanges ==
    [][(Applied /\ CrossBlockResolved(anchors')) =>
          LET a   == anchors'.start.blockIndex
              b   == anchors'.end.blockIndex
              s   == anchors'.start.rawOffset
              e   == anchors'.end.rawOffset
              old == SpreadOf(highlights)
          IN  \A i \in BlockKeys :
                  highlights'.map[i] =
                      IF i = a THEN WithRange(old[i], s, TextLen(a))
                      ELSE IF a < i /\ i < b THEN WithRange(old[i], 0, TextLen(i))
                      ELSE IF i = b THEN WithRange(old[i], 0, e)
                      ELSE old[i]]_vars

\* C12 witness: a selection from inside the text of block a to block b was
\* applied, with a block that has text between them; each of the three holds
\* its range at the end of its list
C12_SpannedThreeBlocks ==
    /\ CrossBlockResolved(anchors)
    /\ pc = "render"
    /\ LET a == anchors.start.blockIndex
           b == anchors.end.blockIndex
           s == anchors.start.rawOffset
           e == anchors.end.rawOffset
           last(i) == highlights.map[i][Len(highlights.map[i])]
       IN  /\ 0 < s /\ s < TextLen(a)
           /\ 0 < e
           /\ highlights.map[a] # <<>> /\ last(a) = Highlight(s, TextLen(a))
           /\ highlights.map[b] # <<>> /\ last(b) = Highlight(0, e)
           /\ \E i \in (a + 1)..(b - 1) :
                  /\ 0 < TextLen(i)
                  /\ highlights.map[i] # <<>>
                  /\ last(i) = Highlight(0, TextLen(i))

(* The parts HighlightedText emits, under MergerSpec *)

\* C13: renderSegments emits no part of length 0, highlighted or not, for a
\* text and a list of ranges with start < end, ranges at or beyond the end of
\* the text included, and highlighted and plain parts alternate
C13_NoEmptyPartAndAlternating ==
    (mPc = "rendered" /\ mText # <<>> /\ mInput # <<>> /\ NonDegenerate(mInput)) =>
        /\ \A k \in 1..Len(mOut.parts) : mOut.parts[k].text # <<>>
        /\ \A k \in 1..(Len(mOut.parts) - 1) :
               mOut.parts[k].highlighted # mOut.parts[k + 1].highlighted

====
